---- MODULE Spec2Model ----
(***************************************************************************)
(* Model of the lemmy summarizer bot: summary_bot.py (run_bot, load_log,   *)
(* update_log, load_blocklist, the polling loop of init) and               *)
(* utils/postutils.py (PostUtils.safe_api_call, PostUtils.get_posts_deep). *)
(* Text that the code manipulates character by character (URLs, domains)   *)
(* is a sequence of one-character strings; post ids are integers on the    *)
(* feed and decimal strings in the dedup log, as in the code.              *)
(***************************************************************************)
EXTENDS Integers, Sequences, FiniteSets, TLC

\* ------------------------------------------------------------------ bounds
\* number of run_bot cycles explored
MaxCycles == 2
\* largest number of entries in one page of the feed
MaxPageLen == 1
\* largest number of non-deleted posts the feed returns over one fetch
MaxPosts == 2

\* ------------------------------------------------------- program constants
MINIMUM_REDUCTION_THRESHOLD == 50
MAXIMUM_REDUCTION_THRESHOLD == 96
\* safe_api_call: `retries < 10`, `retries >= 10`
RETRY_LIMIT == 10
\* safe_api_call: time.sleep(retries * 5)
SLEEP_FACTOR == 5
\* get_posts_deep: range(1, 6)
LAST_PAGE == 5

IMAGE_CONTENT_TYPES == {"image/png", "image/jpeg", "image/jpg", "image/gif", "image/mp4"}

\* ------------------------------------------------------------ text helpers
RECURSIVE StrReplace(_, _, _)
\* str.replace(old, new): every non-overlapping occurrence, left to right
StrReplace(s, old, new) ==
    IF Len(s) < Len(old) THEN s
    ELSE IF SubSeq(s, 1, Len(old)) = old
         THEN new \o StrReplace(SubSeq(s, Len(old) + 1, Len(s)), old, new)
         ELSE <<Head(s)>> \o StrReplace(Tail(s), old, new)

RECURSIVE Find(_, _, _)
\* index of the first occurrence of pat in s at or after position i, 0 if none
Find(s, pat, i) ==
    IF i + Len(pat) - 1 > Len(s) THEN 0
    ELSE IF SubSeq(s, i, i + Len(pat) - 1) = pat THEN i
         ELSE Find(s, pat, i + 1)

RECURSIVE Split(_, _)
\* str.split(sep) for a one-character separator
Split(s, sep) ==
    LET j == Find(s, <<sep>>, 1)
    IN IF j = 0 THEN <<s>>
       ELSE <<SubSeq(s, 1, j - 1)>> \o Split(SubSeq(s, j + 1, Len(s)), sep)

RECURSIVE Join(_, _)
\* sep.join(parts)
Join(parts, sep) ==
    IF parts = <<>> THEN <<>>
    ELSE IF Len(parts) = 1 THEN parts[1]
         ELSE parts[1] \o <<sep>> \o Join(Tail(parts), sep)

\* substring test: `pat in s`
Contains(s, pat) == Find(s, pat, 1) # 0

UPPERCASE ==
    <<"A", "B", "C", "D", "E", "F", "G", "H", "I", "J", "K", "L", "M",
      "N", "O", "P", "Q", "R", "S", "T", "U", "V", "W", "X", "Y", "Z">>
LOWERCASE ==
    <<"a", "b", "c", "d", "e", "f", "g", "h", "i", "j", "k", "l", "m",
      "n", "o", "p", "q", "r", "s", "t", "u", "v", "w", "x", "y", "z">>

\* one character of str.lower()
LowerChar(c) ==
    IF \E j \in 1..26 : UPPERCASE[j] = c
    THEN LOWERCASE[CHOOSE j \in 1..26 : UPPERCASE[j] = c]
    ELSE c

\* str.lower()
Lower(s) == [j \in 1..Len(s) |-> LowerChar(s[j])]

\* list membership: `x in list`
InList(x, list) == \E j \in 1..Len(list) : list[j] = x

\* number of occurrences of x in list
Count(x, list) == Cardinality({j \in 1..Len(list) : list[j] = x})

\* ------------------------------------------------------------ public data
AMP == <<"a", "m", "p", ".">>
SCHEME_SEP == <<":", "/", "/">>
L_com == <<"c", "o", "m">>
L_co == <<"c", "o">>
L_uk == <<"u", "k">>
\* the part of the public suffix list the modelled URLs fall under
PUBLIC_SUFFIXES == {<<L_com>>, <<L_uk>>, <<L_co, L_uk>>}

URL_A == <<"h", "t", "t", "p", ":", "/", "/", "a", "m", "p", ".", "e", "x", ".", "c", "o", "m", "/", "a">>
URL_C == <<"h", "t", "t", "p", ":", "/", "/", "a", "m", "p", ".", "i", "m", "g", "u", "r", ".", "c", "o", "m", "/", "c">>
DOM_EX == <<"e", "x", ".", "c", "o", "m">>
DOM_BBC == <<"b", "b", "c", ".", "c", "o", ".", "u", "k">>
DOM_IMGUR == <<"i", "m", "g", "u", "r", ".", "c", "o", "m">>
DOM_GIPHY == <<"g", "i", "p", "h", "y", ".", "c", "o", "m">>

\* contents of ./assets/blocklist.txt, one domain per line
BLOCKLIST_FILE == <<DOM_GIPHY, DOM_IMGUR>>

\* the posts the remote feed can serve (a post without a url is a text post)
Catalogue ==
    { [id |-> 1, has_url |-> TRUE,  url |-> URL_A, deleted |-> FALSE],
      [id |-> 12, has_url |-> TRUE,  url |-> URL_C, deleted |-> FALSE],
      [id |-> 4, has_url |-> FALSE, url |-> <<>>,  deleted |-> FALSE],
      [id |-> 1, has_url |-> TRUE,  url |-> URL_A, deleted |-> TRUE] }

DIGITS == <<"0", "1", "2", "3", "4", "5", "6", "7", "8", "9">>

RECURSIVE Str(_)
\* str(n) of a non-negative integer: its decimal digits
Str(n) == IF n < 10 THEN <<DIGITS[n + 1]>>
          ELSE Str(n \div 10) \o <<DIGITS[(n % 10) + 1]>>

\* post_id = str(post['id'])
PostId(post) == Str(post.id)

PostIds == {PostId(p) : p \in Catalogue}

\* entries of a page of lemmy.post.list: {post, saved}
FeedEntries == {[post |-> p, saved |-> FALSE] : p \in Catalogue}

\* reductions the summarizer can report
Reductions == {49, 50, 75, 96, 97}

\* ------------------------------------------------------- summary_bot.py
\* str.splitlines() of a text whose only line break is "\n"
Splitlines(text) ==
    LET parts == Split(text, "\n")
    IN IF parts[Len(parts)] = <<>> THEN SubSeq(parts, 1, Len(parts) - 1) ELSE parts

\* load_blocklist(): the lines of the blocklist file
load_blocklist == BLOCKLIST_FILE

\* variant: the list is kept in memory only, nothing is read back
load_log_MemoryOnly(file) == <<>>

\* load_log(): the lines of the log file, [] when the file does not exist
load_log(file) == IF file.exists THEN Splitlines(file.text) ELSE <<>>

\* load_log() creates the file when it is missing (open(..., "a"))
load_log_file(file) == [file EXCEPT !.exists = TRUE]

\* variant: the file is opened and closed, the id is never written
update_log_NoWrite(file, post_id) ==
    [exists |-> TRUE, text |-> file.text]

\* update_log(post_id): open(..., "a"); write("{}\n".format(post_id))
update_log(file, post_id) ==
    [exists |-> TRUE, text |-> file.text \o post_id \o <<"\n">>]

\* clean_url = post['url'].replace("amp.", "")
CleanUrl(url) == StrReplace(url, AMP, <<>>)

\* the literal "iso-8859-1" of line 111
ISO_MARKER == <<"i", "s", "o", "-", "8", "8", "5", "9", "-", "1">>

\* variant: the marker is looked for in response.text, without lower()
ResponseEncoding_NoLower(encoding, text) ==
    IF Contains(text, ISO_MARKER) THEN "iso-8859-1"
    ELSE IF encoding = "ISO-8859-1" THEN "utf-8"
    ELSE encoding

\* lines 111-114: response.encoding after the correction, given the
\* encoding requests took from the headers and the text decoded under it
ResponseEncoding(encoding, text) ==
    IF Contains(Lower(text), ISO_MARKER) THEN "iso-8859-1"
    ELSE IF encoding = "ISO-8859-1" THEN "utf-8"
    ELSE encoding

\* the host part tldextract looks at: after the scheme, up to the first "/"
Netloc(url) ==
    LET i == Find(url, SCHEME_SEP, 1)
        rest == IF i = 0 THEN url ELSE SubSeq(url, i + Len(SCHEME_SEP), Len(url))
        j == Find(rest, <<"/">>, 1)
    IN IF j = 0 THEN rest ELSE SubSeq(rest, 1, j - 1)

\* tldextract.extract(url): the longest public suffix, the label before it,
\* and the labels before that; no suffix found: the last label is the domain
tldextract(url) ==
    LET labels == Split(Netloc(url), ".")
        n == Len(labels)
        cands == {j \in 1..n : SubSeq(labels, j, n) \in PUBLIC_SUFFIXES}
        j == IF cands = {} THEN n + 1
             ELSE CHOOSE c \in cands : \A d \in cands : c <= d
    IN [subdomain |-> IF j > 2 THEN Join(SubSeq(labels, 1, j - 2), ".") ELSE <<>>,
        domain |-> IF j > 1 THEN labels[j - 1] ELSE <<>>,
        suffix |-> IF j <= n THEN Join(SubSeq(labels, j, n), ".") ELSE <<>>]

\* variant: the suffix is left out of the formatted domain
DomainOf_NoSuffix(clean_url) == tldextract(clean_url).domain

\* domain = "{}.{}".format(ext.domain, ext.suffix)
DomainOf(clean_url) ==
    LET ext == tldextract(clean_url)
    IN ext.domain \o <<".">> \o ext.suffix

\* variant: the membership test against processed_posts is left out
Unseen_NoDedup(post, processed) == post.has_url

\* variant: the `'url' in post` test is left out
Unseen_NoUrlTest(post, processed) == ~InList(PostId(post), processed)

\* 'url' in post and post_id not in processed_posts
Unseen(post, processed) == post.has_url /\ ~InList(PostId(post), processed)

\* domain in blocklist
Blocklisted(post, blist) == InList(DomainOf(CleanUrl(post.url)), blist)

\* variant: strict comparisons
Gate_Strict(reduction) ==
    MINIMUM_REDUCTION_THRESHOLD < reduction /\ reduction < MAXIMUM_REDUCTION_THRESHOLD

\* MINIMUM_REDUCTION_THRESHOLD <= reduction <= MAXIMUM_REDUCTION_THRESHOLD
Gate(reduction) ==
    MINIMUM_REDUCTION_THRESHOLD <= reduction /\ reduction <= MAXIMUM_REDUCTION_THRESHOLD

\* what scraper.scrape_html and summary.get_summary return for an article
\* whose summary has the given reduction
ARTICLE_TITLE == <<"T">>
ARTICLE_DATE == <<"D">>
SummaryOf(reduction) ==
    [reduction |-> reduction, top_sentences |-> << <<"S1">>, <<"S2">> >>,
     top_words |-> << <<"foo">>, <<"bar">> >>]

\* a piece of the template: literal text, or the positional field {slot}
Lit(text) == [slot |-> -1, text |-> text]
Field(n) == [slot |-> n, text |-> ""]

\* ./templates/en.txt: five ordered positional placeholders (title, url,
\* reduction, date, quoted body)
TEMPLATE ==
    <<Lit("# "), Field(0), Lit("\n"), Field(1), Lit("\nreduced by "), Field(2), Lit("% - "),
      Field(3), Lit("\n\n"), Field(4), Lit("\n")>>

RECURSIVE Format(_, _)
\* str.format(*args) on a template of literals and {n} fields
Format(template, args) ==
    IF template = <<>> THEN <<>>
    ELSE (IF Head(template).slot < 0 THEN <<Head(template).text>>
          ELSE args[Head(template).slot + 1])
         \o Format(Tail(template), args)

\* "\n\n".join(["> " + item for item in summary_dict["top_sentences"]])
PostBody(top_sentences) ==
    Join([j \in 1..Len(top_sentences) |-> <<"> ">> \o top_sentences[j]], "\n\n")

RECURSIVE TopWords(_, _)
\* top_words += "{}^#{} ".format(word, index + 1), for index from 0
TopWords(words, index) ==
    IF index >= Len(words) THEN <<>>
    ELSE words[index + 1] \o <<"^#">> \o Str(index + 1) \o <<" ">> \o TopWords(words, index + 1)

\* lines 130-139: post_body and top_words are built, the comment is the
\* template formatted with title, url, reduction, date and post_body
Comment(post, summary_dict) ==
    LET post_body == PostBody(summary_dict.top_sentences)
        top_words == TopWords(summary_dict.top_words, 0)
    IN Format(TEMPLATE, <<ARTICLE_TITLE, CleanUrl(post.url), Str(summary_dict.reduction),
                          ARTICLE_DATE, post_body>>)

\* ------------------------------------------------------ utils/postutils.py
\* truth value of what the wrapped call returned: log_in returns a bool,
\* post.list a list (an empty list is falsy)
Truthy(f, r) == IF f = "log_in" THEN r ELSE r # <<>>

\* variant: `retries <= 10` in the while condition
LoopCondition_OneMore(f, r, n) == ~Truthy(f, r) /\ n <= RETRY_LIMIT

\* while not (response := fun(**kwargs)) and retries < 10
LoopCondition(f, r, n) == ~Truthy(f, r) /\ n < RETRY_LIMIT

\* variant: the sleep uses the counter before it was incremented
SleepSeconds_BeforeIncrement(n) == (n - 1) * SLEEP_FACTOR

\* time.sleep(retries * 5), after retries += 1
SleepSeconds(n) == n * SLEEP_FACTOR

\* variant: `retries > 10`
Exhausted_Late(n) == n > RETRY_LIMIT

\* if retries >= 10: raise RuntimeError
Exhausted(n) == n >= RETRY_LIMIT

\* variant: the deleted test is left out
Kept_NoFilter(response, saved_only) ==
    LET sel == SelectSeq(response, LAMBDA e : saved_only => e.saved)
    IN [j \in 1..Len(sel) |-> sel[j].post]

\* [post['post'] for post in response if not post['post']["deleted"] ...]
Kept(response, saved_only) ==
    LET sel == SelectSeq(response, LAMBDA e : ~e.post.deleted /\ (saved_only => e.saved))
    IN [j \in 1..Len(sel) |-> sel[j].post]

\* ------------------------------------------------------------------ state
VARIABLES
    pc,               \* where the process is: "run_bot", "api", "api_exit", "loop", "sleep",
                      \* "fatal" (safe_api_call raised), "crashed" (another uncaught exception),
                      \* "pure", "done" (SpecPure only)
    cycle,            \* number of the run_bot call in progress (init's while True)
    log_file,         \* ./assets/processed_posts.txt: [exists, text]
    processed_posts,  \* run_bot: list returned by load_log()
    blocklist,        \* run_bot: list returned by load_blocklist()
    fun,              \* safe_api_call: the wrapped operation, "log_in" or "post.list"
    retries,          \* safe_api_call: retries
    response,         \* safe_api_call: truth value of response (its entries are read by
                      \* get_posts_deep, in PageReturn)
    calls,            \* truth value of each invocation of fun made by the current safe_api_call
    sleeps,           \* seconds of each time.sleep made by the current safe_api_call
    page,             \* get_posts_deep: i
    posts,            \* get_posts_deep / run_bot: posts
    k,                \* run_bot: position of the for loop in posts (1-based)
    events,           \* what the loop iteration just completed did: sequence of [op, id, arg]
    gets,             \* number of requests.get calls made per post id
    failed,           \* post ids whose fetch, scrape or summarize raised, with the cycle
    log_at_start,     \* lines of the log file when the current cycle started
    comments,         \* lemmy.comment.create calls received by the platform: [post, body]
    served,           \* what get_posts_deep received in this fetch: [pages, live], the page number of
                      \* each truthy response and the non-deleted posts of those responses
    log_at_boot,      \* lines of the log file when the current process was started
    probe,            \* SpecPure: the input handed to the function under study
    answer            \* SpecPure: what the function returned for probe

vars == <<pc, cycle, log_file, processed_posts, blocklist, fun, retries, response,
          calls, sleeps, page, posts, k, events, gets, failed, log_at_start, comments,
          served, log_at_boot, probe, answer>>

apiVars == <<fun, retries, response, calls, sleeps>>
loopVars == <<events, gets, failed, comments>>
auxVars == <<served, log_at_boot, probe, answer>>

RECURSIVE LivePosts(_)
\* the posts of the entries of a page that are not deleted, in item order
LivePosts(entries) ==
    IF entries = <<>> THEN <<>>
    ELSE (IF Head(entries).post.deleted THEN <<>> ELSE <<Head(entries).post>>)
         \o LivePosts(Tail(entries))

\* the pages the feed can serve: at most MaxPageLen entries
AllPages == UNION {[1..n -> FeedEntries] : n \in 0..MaxPageLen}

\* the pages with at most n non-deleted posts
PagesUpTo == [n \in 0..MaxPosts |-> {r \in AllPages : Len(LivePosts(r)) <= n}]

\* the response of a page of the feed: at most MaxPageLen entries, and at
\* most MaxPosts non-deleted posts over the pages of one fetch
PageResponses(sofar) ==
    IF Len(sofar) <= MaxPosts THEN PagesUpTo[MaxPosts - Len(sofar)] ELSE {<<>>}

\* what fun can return
Results(f, sofar) == IF f = "log_in" THEN BOOLEAN ELSE PageResponses(sofar)

Ev(op, id, arg) == [op |-> op, id |-> id, arg |-> arg]

HasOp(evs, ops) == \E j \in 1..Len(evs) : evs[j].op \in ops

\* the log file left by an earlier run of the process, if any
InitialLogs ==
    { [exists |-> FALSE, text |-> <<>>],
      [exists |-> TRUE, text |-> <<>>],
      [exists |-> TRUE, text |-> <<"1", "\n">>],
      [exists |-> TRUE, text |-> <<"7", "\n">>] }

Init ==
    /\ pc = "run_bot"
    /\ cycle = 1
    /\ log_file \in InitialLogs
    /\ processed_posts = <<>>
    /\ blocklist = <<>>
    /\ fun = "log_in"
    /\ retries = 1
    /\ response = FALSE
    /\ calls = <<>>
    /\ sleeps = <<>>
    /\ page = 1
    /\ posts = <<>>
    /\ k = 1
    /\ events = <<>>
    /\ gets = [id \in PostIds |-> 0]
    /\ failed = {}
    /\ log_at_start = <<>>
    /\ comments = <<>>
    /\ served = [pages |-> <<>>, live |-> <<>>]
    /\ log_at_boot = Splitlines(log_file.text)
    /\ probe = <<>>
    /\ answer = <<>>

\* entry of safe_api_call(f, ...): retries = 1
StartCall(f) ==
    /\ pc' = "api"
    /\ fun' = f
    /\ retries' = 1
    /\ response' = FALSE
    /\ calls' = <<>>
    /\ sleeps' = <<>>

\* run_bot, up to the call of safe_api_call(lemmy.log_in, ...)
RunBot ==
    /\ pc = "run_bot"
    /\ processed_posts' = load_log(log_file)
    /\ log_file' = load_log_file(log_file)
    /\ log_at_start' = Splitlines(log_file.text)
    /\ blocklist' = load_blocklist
    /\ events' = <<>>
    /\ page' = 1
    /\ posts' = <<>>
    /\ k' = 1
    /\ StartCall("log_in")
    /\ served' = [pages |-> <<>>, live |-> <<>>]
    /\ UNCHANGED <<cycle, gets, failed, comments>>
    /\ UNCHANGED <<log_at_boot, probe, answer>>

\* the feed record after safe_api_call handed r to get_posts_deep
ServedAfter(r) ==
    IF fun = "post.list" /\ Truthy(fun, r)
    THEN [pages |-> Append(served.pages, page), live |-> served.live \o LivePosts(r)]
    ELSE served

\* safe_api_call: an evaluation of the while condition (one invocation of
\* fun) that holds, and the loop body
ApiAttempt ==
    /\ pc = "api"
    /\ \E r \in Results(fun, posts) :
        /\ LoopCondition(fun, r, retries)
        /\ response' = Truthy(fun, r)
        /\ calls' = Append(calls, Truthy(fun, r))
        /\ retries' = retries + 1
        /\ sleeps' = Append(sleeps, SleepSeconds(retries + 1))
        /\ pc' = "api"
    /\ UNCHANGED <<cycle, log_file, processed_posts, blocklist, fun, page, posts, k,
                   log_at_start>>
    /\ UNCHANGED loopVars
    /\ UNCHANGED auxVars

\* truth values of the responses with which the while loop ends at retries = n
ExitTruths(n) ==
    {Truthy(fun, r) : r \in {x \in Results(fun, posts) : ~LoopCondition(fun, x, n)}}

\* safe_api_call: the invocation that ends the while loop, then
\* raise RuntimeError; nothing catches it, the process ends
ApiRaise ==
    /\ pc = "api"
    /\ Exhausted(retries)
    /\ \E t \in ExitTruths(retries) :
        /\ response' = t
        /\ calls' = Append(calls, t)
    /\ pc' = "fatal"
    /\ UNCHANGED <<cycle, log_file, processed_posts, blocklist, fun, retries, sleeps, page,
                   posts, k, log_at_start>>
    /\ UNCHANGED loopVars
    /\ UNCHANGED auxVars

\* safe_api_call: the invocation that ends the while loop, then
\* return response: the caller holds the response, the frame is left
ApiReturn ==
    /\ pc = "api"
    /\ ~Exhausted(retries)
    /\ \E t \in ExitTruths(retries) : response' = t
    /\ pc' = "api_exit"
    /\ retries' = 1
    /\ calls' = <<>>
    /\ sleeps' = <<>>
    /\ UNCHANGED <<cycle, log_file, processed_posts, blocklist, fun, page, posts, k,
                   log_at_start>>
    /\ UNCHANGED loopVars
    /\ UNCHANGED auxVars

\* run_bot after safe_api_call(lemmy.log_in) returned: the result is not
\* looked at; get_posts_deep starts with page 1
LoginReturn ==
    /\ pc = "api_exit"
    /\ fun = "log_in"
    /\ posts' = <<>>
    /\ page' = 1
    /\ StartCall("post.list")
    /\ UNCHANGED <<cycle, log_file, processed_posts, blocklist, k, log_at_start>>
    /\ UNCHANGED loopVars
    /\ UNCHANGED auxVars

\* get_posts_deep after safe_api_call(lemmy.post.list, page=i) returned: the
\* entries of the response are read here, posts is extended, and the next
\* page is asked for, or posts is returned after page 5
PageReturn ==
    /\ pc = "api_exit"
    /\ fun = "post.list"
    /\ \E r \in Results(fun, posts) :
        /\ Truthy(fun, r) = response
        /\ posts' = posts \o Kept(r, FALSE)
        /\ served' = ServedAfter(r)
    /\ IF page < LAST_PAGE
       THEN /\ page' = page + 1
            /\ StartCall("post.list")
            /\ k' = k
       ELSE /\ pc' = "loop"
            /\ k' = 1
            /\ retries' = 1
            /\ response' = FALSE
            /\ calls' = <<>>
            /\ sleeps' = <<>>
            /\ UNCHANGED <<fun, page>>
    /\ UNCHANGED <<cycle, log_file, processed_posts, blocklist, log_at_start>>
    /\ UNCHANGED loopVars
    /\ UNCHANGED <<log_at_boot, probe, answer>>

\* content types a response can declare
ContentTypes == IMAGE_CONTENT_TYPES \cup {"text/html", "image/webp"}

\* variant: 'image/mp4' is missing from the tuple
IsImage_NoMp4(ct) == ct \in IMAGE_CONTENT_TYPES \ {"image/mp4"}

\* response.headers['content-type'] in ('image/png', ...)
IsImage(ct) == ct \in IMAGE_CONTENT_TYPES

\* end of one iteration of `for post in posts`: the log file as the
\* iteration leaves it, the record of what it did, the next position
Iteration(post_id, evs, new_log) ==
    /\ pc' = "loop"
    /\ k' = k + 1
    /\ log_file' = new_log
    /\ events' = evs
    /\ gets' = [gets EXCEPT ![post_id] = @ + Count("get", [j \in 1..Len(evs) |-> evs[j].op])]
    /\ failed' = IF HasOp(evs, {"except"}) THEN failed \cup {<<post_id, cycle>>} ELSE failed
    /\ UNCHANGED <<cycle, processed_posts, blocklist, page, posts, log_at_start>>
    /\ UNCHANGED apiVars
    /\ UNCHANGED auxVars

InLoop == pc = "loop" /\ k <= Len(posts)

\* the `if 'url' in post and post_id not in processed_posts` is false
SkipPost ==
    /\ InLoop
    /\ ~Unseen(posts[k], processed_posts)
    /\ Iteration(PostId(posts[k]), <<Ev("skip", PostId(posts[k]), 0)>>, log_file)
    /\ UNCHANGED comments

\* `if domain in blocklist: ... continue`
BlocklistSkip ==
    /\ InLoop
    /\ Unseen(posts[k], processed_posts)
    /\ Blocklisted(posts[k], blocklist)
    /\ Iteration(PostId(posts[k]), <<Ev("blocklist", PostId(posts[k]), 0)>>, log_file)
    /\ UNCHANGED comments

\* the post reaches the try block
Summarizable == InLoop /\ Unseen(posts[k], processed_posts) /\ ~Blocklisted(posts[k], blocklist)

\* requests.get raises (timeout, connection error), or the response has no
\* content-type header (KeyError): except Exception, update_log, continue;
\* a "get" event carries the content type of the response, "none" here
FetchRaises ==
    /\ Summarizable
    /\ LET id == PostId(posts[k])
       IN Iteration(id, <<Ev("get", id, "none"), Ev("except", id, 0), Ev("update_log", id, 0)>>,
                    update_log(log_file, id))
    /\ UNCHANGED comments

\* the content type is one of the image types: update_log, continue
ContentTypeSkip ==
    /\ Summarizable
    /\ \E ct \in ContentTypes :
        /\ IsImage(ct)
        /\ LET id == PostId(posts[k])
           IN Iteration(id, <<Ev("get", id, ct), Ev("content_skip", id, 0),
                              Ev("update_log", id, 0)>>,
                        update_log(log_file, id))
    /\ UNCHANGED comments

\* scraper.scrape_html raises
ScrapeRaises ==
    /\ Summarizable
    /\ \E ct \in ContentTypes :
        /\ ~IsImage(ct)
        /\ LET id == PostId(posts[k])
           IN Iteration(id, <<Ev("get", id, ct), Ev("scrape", id, 0), Ev("except", id, 0),
                              Ev("update_log", id, 0)>>,
                        update_log(log_file, id))
    /\ UNCHANGED comments

\* summary.get_summary raises
SummarizeRaises ==
    /\ Summarizable
    /\ \E ct \in ContentTypes :
        /\ ~IsImage(ct)
        /\ LET id == PostId(posts[k])
           IN Iteration(id, <<Ev("get", id, ct), Ev("scrape", id, 0), Ev("summarize", id, 0),
                              Ev("except", id, 0), Ev("update_log", id, 0)>>,
                        update_log(log_file, id))
    /\ UNCHANGED comments

\* the reduction is inside the band: the comment is built from the template
\* and logged (the "render" event carries it); the lemmy.comment.create call
\* is commented out in the source
GateIn ==
    /\ Summarizable
    /\ \E ct \in ContentTypes, red \in Reductions :
        /\ ~IsImage(ct)
        /\ Gate(red)
        /\ LET id == PostId(posts[k])
           IN Iteration(id, <<Ev("get", id, ct), Ev("scrape", id, 0), Ev("summarize", id, red),
                              Ev("gate", id, red),
                              Ev("render", id, Comment(posts[k], SummaryOf(red))),
                              Ev("update_log", id, 0)>>,
                        update_log(log_file, id))
    /\ UNCHANGED comments

\* the reduction is outside the band: update_log, log "Skipped"
GateOut ==
    /\ Summarizable
    /\ \E ct \in ContentTypes, red \in Reductions :
        /\ ~IsImage(ct)
        /\ ~Gate(red)
        /\ LET id == PostId(posts[k])
           IN Iteration(id, <<Ev("get", id, ct), Ev("scrape", id, 0), Ev("summarize", id, red),
                              Ev("gate", id, red), Ev("update_log", id, 0)>>,
                        update_log(log_file, id))
    /\ UNCHANGED comments

\* an exception raised outside the try block: the post has no 'ap_id' key,
\* so the f-string of the BLOCKLIST (line 96) or SUMMARIZE (line 99) log
\* call raises KeyError; nothing catches it and the process ends
UncaughtRaise ==
    /\ InLoop
    /\ Unseen(posts[k], processed_posts)
    /\ pc' = "crashed"
    /\ events' = <<Ev("raise", PostId(posts[k]), 0)>>
    /\ UNCHANGED <<cycle, log_file, processed_posts, blocklist, page, posts, k, log_at_start>>
    /\ UNCHANGED apiVars
    /\ UNCHANGED <<gets, failed, comments>>
    /\ UNCHANGED auxVars

\* the for loop is over: run_bot returns to init's while True
RunBotReturn ==
    /\ pc = "loop"
    /\ k > Len(posts)
    /\ pc' = "sleep"
    /\ events' = <<>>
    /\ UNCHANGED <<cycle, log_file, processed_posts, blocklist, page, posts, k, log_at_start>>
    /\ UNCHANGED apiVars
    /\ UNCHANGED <<gets, failed, comments>>
    /\ UNCHANGED auxVars

\* time.sleep(int(args.sleep)), then the next run_bot call
Sleep ==
    /\ pc = "sleep"
    /\ cycle < MaxCycles
    /\ pc' = "run_bot"
    /\ cycle' = cycle + 1
    /\ UNCHANGED <<log_file, processed_posts, blocklist, page, posts, k, log_at_start>>
    /\ UNCHANGED apiVars
    /\ UNCHANGED loopVars
    /\ UNCHANGED auxVars

Next ==
    \/ RunBot
    \/ ApiAttempt
    \/ ApiRaise
    \/ ApiReturn
    \/ LoginReturn
    \/ PageReturn
    \/ SkipPost
    \/ BlocklistSkip
    \/ FetchRaises
    \/ ContentTypeSkip
    \/ ScrapeRaises
    \/ SummarizeRaises
    \/ GateIn
    \/ GateOut
    \/ UncaughtRaise
    \/ RunBotReturn
    \/ Sleep

Spec == Init /\ [][Next]_vars

\* the process is terminated from outside at any point, or has ended by an
\* uncaught exception, and a supervisor starts it again: init() runs from
\* the top, the memory of the old process is gone, the files are kept
Restart ==
    /\ pc \in {"run_bot", "api", "api_exit", "loop", "sleep", "fatal", "crashed"}
    /\ cycle < MaxCycles
    /\ pc' = "run_bot"
    /\ cycle' = cycle + 1
    /\ log_at_boot' = Splitlines(log_file.text)
    /\ processed_posts' = <<>>
    /\ blocklist' = <<>>
    /\ fun' = "log_in"
    /\ retries' = 1
    /\ response' = FALSE
    /\ calls' = <<>>
    /\ sleeps' = <<>>
    /\ page' = 1
    /\ posts' = <<>>
    /\ k' = 1
    /\ events' = <<>>
    /\ log_at_start' = <<>>
    /\ served' = [pages |-> <<>>, live |-> <<>>]
    /\ UNCHANGED <<log_file, gets, failed, comments, probe, answer>>

NextRestart ==
    \/ Next
    \/ Restart

\* the bot under a supervisor that restarts it
SpecRestart == Init /\ [][NextRestart]_vars

\* ------------------------------------------- the pure steps of run_bot
L_amp == <<"a", "m", "p">>
L_camp == <<"c", "a", "m", "p">>
L_www == <<"w", "w", "w">>
HTTP == <<"h", "t", "t", "p">>

\* subdomain labels in front of the registrable domain, each with its dot
HostPrefixes ==
    LET labels == {L_amp, L_camp, L_www}
    IN {<<>>} \cup {a \o <<".">> : a \in labels}
              \cup {a \o <<".">> \o b \o <<".">> : a \in labels, b \in labels}

UrlPaths ==
    { <<>>,
      <<"/", "a">>,
      <<"/", "a", "m", "p", ".", "h", "t", "m", "l">>,
      <<"/", "s", "t", "a", "m", "p", ".", "h", "t", "m", "l">> }

\* post['url'] values
Urls ==
    {HTTP \o SCHEME_SEP \o pre \o dom \o path :
        pre \in HostPrefixes, dom \in {DOM_EX, DOM_IMGUR, DOM_BBC}, path \in UrlPaths}

\* response.encoding as requests sets it from the headers ("None": no guess)
Encodings == {"ISO-8859-1", "iso-8859-1", "utf-8", "UTF-8", "windows-1252", "None"}

\* response.text values: with the marker in lower, upper and mixed case,
\* with a longer and with a different charset name, and without any
Texts ==
    { <<>>,
      <<"h", "i">>,
      <<"<">> \o ISO_MARKER \o <<">">>,
      <<"<", "I", "S", "O", "-", "8", "8", "5", "9", "-", "1", ">">>,
      <<"I", "s", "o", "-", "8", "8", "5", "9", "-", "1">>,
      ISO_MARKER \o <<"5">>,
      <<"i", "s", "o", "-", "8", "8", "5", "9", "-", "2">> }

Probes ==
    {[kind |-> "url", url |-> u, encoding |-> "None", text |-> <<>>] : u \in Urls}
    \cup {[kind |-> "response", url |-> <<>>, encoding |-> e, text |-> t] :
            e \in Encodings, t \in Texts}

\* one post url, or one response, handed to the lines under study
InitPure ==
    /\ pc = "pure"
    /\ probe \in Probes
    /\ answer = <<>>
    /\ cycle = 1
    /\ log_file = [exists |-> FALSE, text |-> <<>>]
    /\ processed_posts = <<>>
    /\ blocklist = load_blocklist
    /\ fun = "log_in"
    /\ retries = 1
    /\ response = FALSE
    /\ calls = <<>>
    /\ sleeps = <<>>
    /\ page = 1
    /\ posts = <<>>
    /\ k = 1
    /\ events = <<>>
    /\ gets = [id \in PostIds |-> 0]
    /\ failed = {}
    /\ log_at_start = <<>>
    /\ comments = <<>>
    /\ served = [pages |-> <<>>, live |-> <<>>]
    /\ log_at_boot = <<>>

pureFrame ==
    <<cycle, log_file, processed_posts, blocklist, fun, retries, response, calls, sleeps,
      page, posts, k, events, gets, failed, log_at_start, comments, served, log_at_boot, probe>>

\* lines 92-95: clean_url, domain, `domain in blocklist`
Normalize ==
    /\ pc = "pure"
    /\ probe.kind = "url"
    /\ LET clean_url == CleanUrl(probe.url)
           domain == DomainOf(clean_url)
       IN answer' = [clean_url |-> clean_url, domain |-> domain,
                     blocked |-> InList(domain, blocklist)]
    /\ pc' = "done"
    /\ UNCHANGED pureFrame

\* lines 111-116: the encoding html_source is decoded with
Decode ==
    /\ pc = "pure"
    /\ probe.kind = "response"
    /\ answer' = [encoding |-> ResponseEncoding(probe.encoding, probe.text)]
    /\ pc' = "done"
    /\ UNCHANGED pureFrame

NextPure ==
    \/ Normalize
    \/ Decode

SpecPure == InitPure /\ [][NextPure]_vars

TypeOK ==
    /\ pc \in {"run_bot", "api", "api_exit", "loop", "sleep", "fatal", "crashed"}
    /\ cycle \in 1..MaxCycles
    /\ fun \in {"log_in", "post.list"}
    /\ retries \in 1..RETRY_LIMIT
    /\ page \in 1..LAST_PAGE
    /\ Len(posts) <= MaxPosts
    /\ k \in 1..(Len(posts) + 1)

\* ----------------------------------------------------------- properties
\* lines of the dedup log as it is on disk
LogLines == Splitlines(log_file.text)

\* the registrable domain of each catalogued url, by the public suffix rules
RegistrableDomain(post) ==
    CASE post.url = URL_A -> DOM_EX
      [] post.url = URL_C -> DOM_IMGUR

\* ids of the catalogued posts whose registrable domain is on the blocklist
BlockedIds ==
    {PostId(p) : p \in {q \in Catalogue :
        q.has_url /\ InList(RegistrableDomain(q), BLOCKLIST_FILE)}}

\* operations of the article pipeline
ArticleOps == {"get", "scrape", "summarize", "gate", "render"}

\* the operations the last iteration performed for post id
OpsFor(id) == {events[j].op : j \in {i \in 1..Len(events) : events[i].id = id}}

\* C1: a post id that is in the dedup log when a cycle starts is never
\* fetched, scraped, summarized or rendered in that cycle.
C1_NoWorkForLoggedId ==
    \A id \in PostIds :
        InList(id, log_at_start) => OpsFor(id) \cap ArticleOps = {}

\* a post with a url whose id was in the log at cycle start went through the loop
C1_Witness ==
    /\ pc = "loop"
    /\ k > 1
    /\ posts[k - 1].has_url
    /\ InList(PostId(posts[k - 1]), log_at_start)
    /\ OpsFor(PostId(posts[k - 1])) = {"skip"}

\* C2: every post id is fetched at most once and written to the dedup log
\* at most once, whatever the feed returns (a repeated id included).
C2_AtMostOnce ==
    \A id \in PostIds : gets[id] <= 1 /\ Count(id, LogLines) <= 1

\* C3: when a cycle ends, every post of that cycle that was skipped for its
\* blocklisted domain has its id in the dedup log.
C3_BlocklistedIsLogged ==
    pc = "sleep" =>
        \A j \in 1..Len(posts) :
            PostId(posts[j]) \in BlockedIds => InList(PostId(posts[j]), LogLines)

\* C4: no article operation (GET, scrape, summarize, gate, render) is ever
\* performed for a post whose registrable domain is on the blocklist.
C4_BlocklistedNeverFetched ==
    \A id \in BlockedIds : OpsFor(id) \cap ArticleOps = {} /\ gets[id] = 0

\* a post of a blocklisted domain, not yet in the log, went through the loop
C4_Witness ==
    /\ pc = "loop"
    /\ k > 1
    /\ PostId(posts[k - 1]) \in BlockedIds
    /\ ~InList(PostId(posts[k - 1]), log_at_start)
    /\ OpsFor(PostId(posts[k - 1])) = {"blocklist"}

\* C5: a post whose summary passed the gate has had createComment invoked
\* for it by the time its id is written to the dedup log.
C5_GatedInIsPublished ==
    \A j \in 1..Len(events) :
        events[j].op = "render" =>
            \E c \in 1..Len(comments) : comments[c].post = events[j].id

\* every invocation made by the current safe_api_call returned a falsy result
AllFalsy == \A j \in 1..Len(calls) : ~calls[j]

\* C6: when the operation is falsy on every invocation, safe_api_call makes
\* exactly 10 invocations, then raises; it never returns and never makes an 11th.
C6_TenAttemptsThenFatal ==
    /\ Len(calls) <= 10
    /\ (pc = "api" /\ AllFalsy) => Len(calls) < 10
    /\ (pc = "fatal" /\ AllFalsy) => Len(calls) = 10
    /\ (AllFalsy /\ Len(calls) = 10) => pc = "fatal"

\* the operation failed ten times and safe_api_call raised
C6_Witness == pc = "fatal" /\ AllFalsy /\ Len(calls) = 10

\* C7: safe_api_call raises only when all 10 attempts were falsy; a truthy
\* result on any attempt, the 10th included, is returned.
C7_FatalOnlyIfAllFalsy ==
    pc = "fatal" => AllFalsy

RECURSIVE Sum(_)
Sum(seq) == IF seq = <<>> THEN 0 ELSE Head(seq) + Sum(Tail(seq))

\* C8 as stated: the wait after the k-th failed attempt is 5*k seconds, the
\* largest wait is 45 seconds and the waits before the fatal signal add up to 225.
C8_Original ==
    /\ \A j \in 1..Len(sleeps) : sleeps[j] = 5 * j /\ sleeps[j] <= 45
    /\ pc = "fatal" => Sum(sleeps) = 225

\* C8 amended: the wait after the k-th failed attempt is 5*(k+1) seconds for
\* k = 1..9 (10s, 15s, ..., 50s), the largest wait is 50 seconds and the
\* waits before the fatal signal add up to 270.
C8_Amended ==
    /\ Len(sleeps) <= 9
    /\ \A j \in 1..Len(sleeps) : sleeps[j] = 5 * (j + 1) /\ sleeps[j] <= 50
    /\ pc = "fatal" => (Len(sleeps) = 9 /\ Sum(sleeps) = 270)

\* the operation kept failing and safe_api_call raised after nine waits
C8_Witness == pc = "fatal" /\ AllFalsy /\ Len(sleeps) = 9 /\ sleeps[9] = 50

\* C9: for a summarized post a comment is rendered exactly when
\* 50 <= reduction <= 96; outside the band nothing is rendered or published,
\* and in both cases the post id is written to the dedup log.
C9_GateBand ==
    \A j \in 1..Len(events) :
        events[j].op = "gate" =>
            /\ HasOp(events, {"render"}) <=> (50 <= events[j].arg /\ events[j].arg <= 96)
            /\ events[j].arg \in {50, 96} => HasOp(events, {"render"})
            /\ events[j].arg \in {49, 97} => ~HasOp(events, {"render"})
            /\ ~HasOp(events, {"render"}) =>
                  \A c \in 1..Len(comments) : comments[c].post # events[j].id
            /\ events[Len(events)].op = "update_log"
            /\ InList(events[j].id, LogLines)

\* a post with reduction exactly 50 was rendered
C9_Witness ==
    \E j \in 1..Len(events) :
        events[j].op = "gate" /\ events[j].arg = 50 /\ HasOp(events, {"render"})

\* C10: when the GET, the scraper or the summarizer raises for a post, the
\* GET was made once, no comment is rendered, the id is written to the log,
\* the loop goes on to the next post, and no later cycle fetches the post.
C10_FailurePolicy ==
    /\ \A j \in 1..Len(events) :
          events[j].op = "except" =>
              /\ Count("get", [i \in 1..Len(events) |-> events[i].op]) = 1
              /\ ~HasOp(events, {"render", "gate"})
              /\ InList(events[j].id, LogLines)
              /\ pc = "loop"
              /\ k > 1 /\ PostId(posts[k - 1]) = events[j].id
    /\ \A f \in failed : \A j \in 1..Len(events) :
          (events[j].op = "get" /\ events[j].id = f[1]) => f[2] >= cycle

\* a post whose processing raised in cycle 1 is met again in cycle 2
C10_Witness ==
    /\ cycle = 2
    /\ pc = "loop"
    /\ k > 1
    /\ <<PostId(posts[k - 1]), 1>> \in failed
    /\ OpsFor(PostId(posts[k - 1])) = {"skip"}

\* C11: an error raised while a post is handled is caught inside the loop:
\* run_bot does not end because of it and the loop goes on with the next post.
C11_ErrorsStayInLoop ==
    HasOp(events, {"except", "raise"}) =>
        /\ pc = "loop"
        /\ k > 1 /\ PostId(posts[k - 1]) = events[1].id

\* C12: the process leaves the running states only when safe_api_call has
\* used up its retries for login or feed listing; in that cycle no post was
\* handled and the dedup log was not written.
C12_OnlyRetryExhaustionEnds ==
    pc \in {"fatal", "crashed"} =>
        /\ pc = "fatal"
        /\ fun \in {"log_in", "post.list"}
        /\ Len(calls) = RETRY_LIMIT
        /\ events = <<>>
        /\ LogLines = log_at_start

\* C13: when every attempt for a page is falsy, get_posts_deep ends with the
\* fatal error: the posts of the earlier pages are not returned, no later
\* page is requested, and nothing runs after the fatal error.
C13_FatalPropagates ==
    /\ [][(pc = "api" /\ fun = "post.list" /\ AllFalsy /\ Len(calls) = 9 /\ ~response') =>
            (pc' = "fatal" /\ page' = page /\ posts' = posts /\ k' = k /\ events' = events)]_vars
    /\ [][pc = "fatal" => vars' = vars]_vars

\* page 3 exhausted its retries after earlier pages had returned posts
C13_Witness ==
    /\ pc = "fatal"
    /\ fun = "post.list"
    /\ AllFalsy
    /\ page = 3
    /\ posts # <<>>

C15_DurableAcrossRestarts ==
    /\ pc \in {"api", "api_exit", "loop", "sleep", "fatal", "crashed"} =>
          \A id \in PostIds : InList(id, log_at_start) => InList(id, processed_posts)
    /\ \A id \in PostIds : InList(id, log_at_boot) => OpsFor(id) \cap ArticleOps = {}
    /\ Len(log_at_boot) <= Len(LogLines)
    /\ SubSeq(LogLines, 1, Len(log_at_boot)) = log_at_boot

\* after a restart the new process meets a post that an earlier process
\* fetched and wrote to the log, and skips it
C15_Witness ==
    /\ pc = "loop"
    /\ k > 1
    /\ gets[PostId(posts[k - 1])] >= 1
    /\ InList(PostId(posts[k - 1]), log_at_boot)
    /\ OpsFor(PostId(posts[k - 1])) = {"skip"}

\* the iteration in events handled a response with content type ct
GotContentType(ct) ==
    \E j \in 1..Len(events) : events[j].op = "get" /\ events[j].arg = ct

\* the five content types the claim lists
C16_Types == {"image/png", "image/jpeg", "image/jpg", "image/gif", "image/mp4"}

\* C16: when the content type of the response is one of image/png,
\* image/jpeg, image/jpg, image/gif, image/mp4, the iteration does nothing
\* but the request, the skip and one update_log (no scrape, no summarize, no
\* render, no except), the log file grows by exactly one line, the post
\* id, and the for loop goes on with the next post
C16_ContentTypeSkip ==
    [][(\E ct \in C16_Types : GotContentType(ct)') =>
            /\ [j \in 1..Len(events') |-> events'[j].op] = <<"get", "content_skip", "update_log">>
            /\ events'[1].id = PostId(posts[k])
            /\ pc = "loop" /\ pc' = "loop"
            /\ k' = k + 1
            /\ log_file'.text = log_file.text \o PostId(posts[k]) \o <<"\n">>]_vars

\* a response of type image/mp4 was skipped and the loop has a next post
C16_Witness ==
    /\ GotContentType("image/mp4")
    /\ HasOp(events, {"content_skip"})
    /\ pc = "loop"
    /\ k <= Len(posts)

\* C17: the comment produced for a gated-in post with top_sentences S1, S2
\* and top_words foo, bar contains the quoted lines "> S1", blank line,
\* "> S2", and also contains the ranked word list "foo^#1 bar^#2 ".
C17_CommentHasSentencesAndWords ==
    \A j \in 1..Len(events) :
        events[j].op = "render" =>
            /\ Contains(events[j].arg, <<"> ", "S1", "\n\n", "> ", "S2">>)
            /\ Contains(events[j].arg, <<"foo", "^#", "1", " ", "bar", "^#", "2", " ">>)

\* the labels of the host of url
HostLabels(url) == Split(Netloc(url), ".")

\* C18: a URL whose host has no label amp is left unchanged by the
\* normalization (the characters "amp." elsewhere in the host name or in
\* the path are kept), and its blocklist decision is the one of its own
\* registrable domain.
C18_OnlyAmpLabelStripped ==
    (pc = "done" /\ probe.kind = "url" /\ ~InList(L_amp, HostLabels(probe.url))) =>
        /\ answer.clean_url = probe.url
        /\ answer.blocked = InList(DomainOf(probe.url), BLOCKLIST_FILE)

\* the text holds the marker in some mix of upper and lower case
HasMarker(text) ==
    \E i \in 1..Len(text) :
        /\ i + Len(ISO_MARKER) - 1 <= Len(text)
        /\ \A j \in 1..Len(ISO_MARKER) : LowerChar(text[i + j - 1]) = ISO_MARKER[j]

AddedLines == SubSeq(LogLines, Len(log_at_start) + 1, Len(LogLines))

\* what the current cycle has done to the log file, and what was done for
\* the posts without a url
C20_CycleFrame ==
    /\ pc # "run_bot" =>
          /\ Len(log_at_start) <= Len(LogLines)
          /\ SubSeq(LogLines, 1, Len(log_at_start)) = log_at_start
          /\ \A j \in 1..Len(AddedLines) :
                /\ ~InList(AddedLines[j], log_at_start)
                /\ \E i \in 1..Len(posts) :
                      posts[i].has_url /\ PostId(posts[i]) = AddedLines[j]
    /\ \A p \in Catalogue : ~p.has_url =>
          /\ ~InList(PostId(p), LogLines)
          /\ gets[PostId(p)] = 0
          /\ OpsFor(PostId(p)) \subseteq {"skip"}

\* C20: a cycle changes the dedup log only by appending ids of posts that
\* its fetch returned, that carry a url and that were not in the log when
\* the cycle started; the lines already there stay, in their order; a post
\* without a url is never fetched and its id is never written, so every
\* cycle that meets it examines it again and skips it.
C20_LogFrame ==
    /\ []C20_CycleFrame
    /\ [][\/ log_file'.text = log_file.text
          \/ /\ pc = "loop" /\ k <= Len(posts)
             /\ posts[k].has_url
             /\ ~InList(PostId(posts[k]), log_at_start)
             /\ log_file'.text = log_file.text \o PostId(posts[k]) \o <<"\n">>]_vars

\* in the second cycle an id was appended to the log and then a post
\* without a url was examined and skipped
C20_Witness ==
    /\ cycle = 2
    /\ pc = "loop"
    /\ k > 2
    /\ ~posts[k - 1].has_url
    /\ OpsFor(PostId(posts[k - 1])) = {"skip"}
    /\ Len(AddedLines) = 1
    /\ Len(log_at_start) >= 1

====
